---- MODULE Spec2Model ----
(***************************************************************************)
(* Model of simple-bootstrap (src/main.rs): a single-shot pipeline that    *)
(* unshares the mount namespace, builds a scratch root out of bind mounts, *)
(* pivots into it, tears the old root down and launches a command.         *)
(*                                                                         *)
(* The program's state is the position in main(), its locals, the mount    *)
(* table of the process's namespace, the mount table of the host namespace *)
(* (reached only through propagation once the namespace is unshared) and   *)
(* the record of OS calls issued so far.                                   *)
(***************************************************************************)
EXTENDS Integers, Sequences, FiniteSets, TLC

VARIABLES
    pc,        \* position in main(), "done" / "aborted" at the end
    argv,      \* the command line, program name first
    envp,      \* names of the variables of the caller's environment
    args,      \* main: args
    rootfs,    \* main: rootfs (canonical path)
    cmd,       \* main: cmd
    scratch,   \* main: scratch_dir, the path of tmp
    loop_i,    \* main: index of loc in from_host
    unshared,  \* the process has its own mount namespace
    mounts,    \* mount table of the process's namespace
    host,      \* mount table of the host namespace, as a view
    dirs,      \* directories created by the run that still exist
    cwd,       \* working directory of the process
    calls,     \* requests made to the OS wrappers so far, in order
    launches,  \* invocations of the launcher so far, in order
    err,       \* the panic that ended the run, if any
    req,       \* MountSpec: the request handed to mount()
    ret        \* MountSpec: what mount() returned

vars == <<pc, argv, envp, args, rootfs, cmd, scratch, loop_i, unshared, mounts,
          host, dirs, cwd, calls, launches, err, req, ret>>

(***************************************************************************)
(* Bounds of the model.                                                    *)
(***************************************************************************)
\* width (in bits) of the raw flag values fed to mount() in MountSpec
FlagBits == 7
\* most arguments the launched command gets on the modelled command lines
MaxCmdArgs == 2

(***************************************************************************)
(* Flag words.  A u32 / c_ulong / c_int flag word is the set of the        *)
(* positions of its 1 bits: | is union, & intersection, & ! difference.    *)
(***************************************************************************)
BitAnd(a, b) == a \cap b

BitOr(a, b) == a \cup b

\* a & !b
BitClear(a, b) == a \ b

\* the word with only bit n set: 1 << n
Bit(n) == {n}

\* position of the most significant 1 bit of a non-zero word
TopBit(w) == CHOOSE i \in w : \A j \in w : j <= i

\* format!("{:b}", w): the binary digits of w, most significant first
ToBinary(w) ==
    IF w = {} THEN <<0>>
    ELSE [ k \in 1..(TopBit(w) + 1) |-> IF (TopBit(w) + 1 - k) \in w THEN 1 ELSE 0 ]

\* the word a digit string produced by ToBinary denotes
FromBinary(ds) == { Len(ds) - k : k \in { j \in 1..Len(ds) : ds[j] = 1 } }

(***************************************************************************)
(* bitflags! MountFlags / UmountFlags                                      *)
(***************************************************************************)
REC        == Bit(0)
BIND       == Bit(1)
SLAVE      == Bit(2)
SHARED     == Bit(3)
PRIVATE    == Bit(4)
UNBINDABLE == Bit(5)

\* MountFlags::all()
MountFlagsAll == REC \cup BIND \cup SLAVE \cup SHARED \cup PRIVATE \cup UNBINDABLE

NOFOLLOW == Bit(0)
DETACH   == Bit(1)

\* Option::None for a flag argument (no flag word is this set)
NoFlags == {-1}

\* flags.contains(flag)
Contains(flags, flag) == BitAnd(flags, flag) = flag

\* platform constants used by the translation
MS_BIND       == Bit(12)
MS_REC        == Bit(14)
MS_UNBINDABLE == Bit(17)
MS_PRIVATE    == Bit(18)
MS_SLAVE      == Bit(19)
MS_SHARED     == Bit(20)
MNT_DETACH    == Bit(1)

\* the match arms of mount(): one semantic tag to its platform bit
FlagBit(flag) ==
    CASE flag = BIND       -> MS_BIND
      [] flag = REC        -> MS_REC
      [] flag = SLAVE      -> MS_SLAVE
      [] flag = SHARED     -> MS_SHARED
      [] flag = PRIVATE    -> MS_PRIVATE
      [] flag = UNBINDABLE -> MS_UNBINDABLE

\* the order in which mount() walks the known tags
FlagOrder == <<REC, BIND, SLAVE, SHARED, PRIVATE, UNBINDABLE>>

\* the loop with "mnt_flags = bit" in place of "mnt_flags = mnt_flags | bit"
RECURSIVE TranslateFromAssign(_, _, _)
TranslateFromAssign(flags, i, mnt_flags) ==
    IF i > Len(FlagOrder) THEN mnt_flags
    ELSE IF ~Contains(flags, FlagOrder[i]) THEN TranslateFromAssign(flags, i + 1, mnt_flags)
    ELSE TranslateFromAssign(flags, i + 1, FlagBit(FlagOrder[i]))

\* the for loop of mount(): fold the tags contained in flags into mnt_flags
RECURSIVE TranslateFrom(_, _, _)
TranslateFrom(flags, i, mnt_flags) ==
    IF i > Len(FlagOrder) THEN mnt_flags
    ELSE IF ~Contains(flags, FlagOrder[i]) THEN TranslateFrom(flags, i + 1, mnt_flags)
    ELSE TranslateFrom(flags, i + 1, BitOr(mnt_flags, FlagBit(FlagOrder[i])))

\* mnt_flags as computed by mount() for an Option<MountFlags>
Translate(maybe_flags) ==
    IF maybe_flags = NoFlags THEN {} ELSE TranslateFrom(maybe_flags, 1, {})

\* the mask applied without the negation: flags.bits() & MountFlags::all().bits()
ExtraBitsKept(flags) == BitAnd(flags, MountFlagsAll)

\* flags.bits() & !MountFlags::all().bits()
ExtraBits(flags) == BitClear(flags, MountFlagsAll)

\* umnt_flags as computed by umount() for an Option<UmountFlags>
\* umount() with the commented-out NOFOLLOW branch enabled
UmountTranslateNoFollow(maybe_flags) ==
    IF maybe_flags = NoFlags THEN {}
    ELSE BitOr(IF Contains(maybe_flags, DETACH) THEN MNT_DETACH ELSE {},
               IF Contains(maybe_flags, NOFOLLOW) THEN Bit(3) ELSE {})

UmountTranslate(maybe_flags) ==
    IF maybe_flags # NoFlags /\ Contains(maybe_flags, DETACH) THEN BitOr({}, MNT_DETACH) ELSE {}

(***************************************************************************)
(* Paths.  A path is [abs, comps]: whether it starts with "/" and its      *)
(* components.  "none" is the relative path of one component.              *)
(***************************************************************************)
Abs(comps) == [abs |-> TRUE, comps |-> comps]
Rel(comps) == [abs |-> FALSE, comps |-> comps]
NonePath == Rel(<<"none">>)

\* PathBuf::join: an absolute argument replaces the base
Join(base, other) ==
    IF other.abs THEN other ELSE [abs |-> base.abs, comps |-> base.comps \o other.comps]

\* &s[1..] applied to the text of an absolute path: the leading "/" is dropped
DropFirst(p) == IF p.abs THEN Rel(p.comps) ELSE Rel(Tail(p.comps))

IsPrefix(p, q) == Len(p) <= Len(q) /\ SubSeq(q, 1, Len(p)) = p

\* q with its prefix p removed
Strip(q, p) == SubSeq(q, Len(p) + 1, Len(q))

\* how the kernel resolves the text of a path argument: relative to the cwd
KPath(p, wd) == IF p.abs THEN p.comps ELSE wd \o p.comps

(***************************************************************************)
(* The file system the command line is resolved against.                   *)
(***************************************************************************)
\* PathBuf::from for the rootfs arguments of the modelled command lines
PathFrom(s) ==
    CASE s = "/srv/root"        -> Abs(<<"srv", "root">>)
      [] s = "/srv/link"        -> Abs(<<"srv", "link">>)
      [] s = "root"             -> Rel(<<"root">>)
      [] s = "/srv/root/../root" -> Abs(<<"srv", "root", "..", "root">>)
      [] s = "/missing"         -> Abs(<<"missing">>)
      [] OTHER                  -> Rel(<<s>>)

\* directories of the original file system view that path resolution can meet
ExistingDirs == { <<>>, <<"srv">>, <<"srv", "root">>, <<"srv", "root", "mnt">> }

\* symbolic links of the original file system view
SymLinks == [ l \in { <<"srv", "link">> } |-> <<"srv", "root">> ]

\* walk the components left to right resolving ".", ".." and symbolic links;
\* <<"ENOENT">> when a component does not exist
RECURSIVE Walk(_, _)
Walk(done, todo) ==
    IF todo = <<>> THEN done
    ELSE LET c == Head(todo)
             next == Append(done, c)
         IN  IF c = "." THEN Walk(done, Tail(todo))
             ELSE IF c = ".."
                  THEN Walk(IF done = <<>> THEN done ELSE SubSeq(done, 1, Len(done) - 1), Tail(todo))
             ELSE IF next \in DOMAIN SymLinks THEN Walk(SymLinks[next], Tail(todo))
             ELSE IF next \in ExistingDirs THEN Walk(next, Tail(todo))
             ELSE <<"ENOENT">>

\* Path::canonicalize: absolute, symlink-free form, or failure
Canonicalize(p, wd) ==
    LET r == Walk(<<>>, KPath(p, wd))
    IN  IF r = <<"ENOENT">> THEN [ok |-> FALSE, path |-> Abs(<<>>)]
        ELSE [ok |-> TRUE, path |-> Abs(r)]

(***************************************************************************)
(* Mount tables.  A mount is                                               *)
(*   [id, parent, mp, fs, root, prop, hostBase]                            *)
(* mp is the mount point in the view of the process, fs/root the file      *)
(* system and the directory of it the mount shows, prop the propagation    *)
(* type.  prop = "shared" means the mount is in a peer group that has a    *)
(* member in the host namespace; hostBase is the host path that shows the  *)
(* same directory as the root of this mount.                               *)
(***************************************************************************)
\* F applied to the value of v, v being evaluated once
Eval(v, F(_)) == CHOOSE r \in { F(x) : x \in {v} } : TRUE

MaxId(ms) == IF ms = {} THEN 0 ELSE CHOOSE n \in { m.id : m \in ms } : \A m \in ms : m.id <= n

ById(ms, id) == CHOOSE m \in ms : m.id = id

\* the mount a path resolves into: longest mount point that is a prefix of
\* the path, the one mounted last when several are stacked
Lookup(ms, path) ==
    CHOOSE m \in ms :
        /\ IsPrefix(m.mp, path)
        /\ \A o \in ms : IsPrefix(o.mp, path) =>
              \/ Len(o.mp) < Len(m.mp)
              \/ Len(o.mp) = Len(m.mp) /\ o.id <= m.id

HasMount(ms, path) == \E m \in ms : IsPrefix(m.mp, path)

\* the path is the root of the mount it resolves to
IsMountPoint(ms, path) == HasMount(ms, path) /\ Lookup(ms, path).mp = path

\* m lies in the mount tree below (or is) the mount with id top
RECURSIVE InTree(_, _, _)
InTree(ms, m, top) ==
    IF m.id = top THEN TRUE
    ELSE IF m.parent = 0 THEN FALSE
    ELSE \E q \in ms : q.id = m.parent /\ InTree(ms, q, top)

Subtree(ms, top) == Eval(top.id, LAMBDA t : { m \in ms : InTree(ms, m, t) })

\* the mounts the host namespace starts with
HostMounts(prop) ==
    { [id |-> 1, parent |-> 0, mp |-> <<>>, fs |-> "rootfs", root |-> <<>>,
       prop |-> prop, hostBase |-> <<>>],
      [id |-> 2, parent |-> 1, mp |-> <<"dev">>, fs |-> "devtmpfs", root |-> <<>>,
       prop |-> prop, hostBase |-> <<"dev">>],
      [id |-> 3, parent |-> 2, mp |-> <<"dev", "pts">>, fs |-> "devpts", root |-> <<>>,
       prop |-> prop, hostBase |-> <<"dev", "pts">>],
      [id |-> 4, parent |-> 1, mp |-> <<"sys">>, fs |-> "sysfs", root |-> <<>>,
       prop |-> prop, hostBase |-> <<"sys">>],
      [id |-> 5, parent |-> 1, mp |-> <<"proc">>, fs |-> "proc", root |-> <<>>,
       prop |-> prop, hostBase |-> <<"proc">> ] }

\* what a namespace looks like from outside: which file system is where
View(ms) == { [mp |-> m.mp, fs |-> m.fs, root |-> m.root] : m \in ms }

\* the host path that shows the place path of the process's view, seen
\* through the mount P that contains it
HostPathOf(P, path) == P.hostBase \o Strip(path, P.mp)

(***************************************************************************)
(* The kernel side of the calls the program makes.  Every operator returns *)
(* [errno, ms, host]: errno = "" on success, the mount table of the        *)
(* process's namespace and of the host after the call.  sh tells whether   *)
(* the process has its own namespace; before that its table is the host's. *)
(***************************************************************************)
KRes(errno, ms, h) == [errno |-> errno, ms |-> ms, host |-> h]

IsShared(m) == m.prop \in {"shared", "shared_local"}

\* propagation type of a mount attached under parent P, cloned from c
AttachProp(P, cprop) ==
    IF P.prop = "shared" THEN "shared"
    ELSE IF P.prop = "shared_local" THEN (IF cprop = "shared" THEN "shared" ELSE "shared_local")
    ELSE cprop

\* the mounts a bind of src (inside mount sm) onto target (inside mount P) adds
BindClones(ms, src, target, rec, sm, P, nid) ==
    LET below == { c \in Subtree(ms, sm) \ {sm} : IsPrefix(src, c.mp) }
        subs == IF rec
                THEN { c \in below : \A a \in below : InTree(ms, c, a.id) => a.prop # "unbindable" }
                ELSE {}
    IN  Eval(subs, LAMBDA sb :
          { [id |-> IF c = sm THEN nid ELSE nid + Cardinality({ d \in sb : d.id <= c.id }),
             parent |-> IF c = sm THEN P.id
                        ELSE IF \E d \in sb : d.id = c.parent
                             THEN nid + Cardinality({ d \in sb : d.id <= c.parent })
                             ELSE nid,
             mp |-> target \o Strip(c.mp, src),
             fs |-> c.fs,
             root |-> IF c = sm THEN sm.root \o Strip(src, sm.mp) ELSE c.root,
             prop |-> AttachProp(P, c.prop),
             hostBase |-> IF c = sm THEN sm.hostBase \o Strip(src, sm.mp) ELSE c.hostBase]
            : c \in sb \cup {sm} })

\* mount(MS_BIND [| MS_REC])
KBind(ms, h, sh, src, target, rec) ==
    CHOOSE r \in
      { IF sm.prop = "unbindable" THEN KRes("EINVAL", ms, h)
        ELSE Eval(BindClones(ms, src, target, rec, sm, P, MaxId(ms) + 1), LAMBDA new :
               KRes("", ms \cup new,
                    IF ~sh THEN View(ms \cup new)
                    ELSE IF P.prop = "shared"
                    THEN h \cup { [mp |-> HostPathOf(P, n.mp), fs |-> n.fs, root |-> n.root] : n \in new }
                    ELSE h))
        : sm \in {Lookup(ms, src)}, P \in {Lookup(ms, target)} } : TRUE

\* mount of a new file system
KNewMount(ms, h, sh, target, fstype) ==
    IF fstype = "" THEN KRes("ENODEV", ms, h)
    ELSE Eval(Lookup(ms, target), LAMBDA P :
           LET n == [id |-> MaxId(ms) + 1, parent |-> P.id, mp |-> target, fs |-> fstype,
                     root |-> <<>>, prop |-> AttachProp(P, "private"),
                     hostBase |-> HostPathOf(P, target)]
           IN  KRes("", ms \cup {n},
                    IF ~sh THEN View(ms \cup {n})
                    ELSE IF P.prop = "shared"
                    THEN h \cup { [mp |-> HostPathOf(P, target), fs |-> fstype, root |-> <<>>] }
                    ELSE h))

\* the propagation type a mount gets from mount(MS_SLAVE / MS_SHARED / ...)
NewProp(old, type) ==
    CASE type = "slave"      -> IF old \in {"shared", "shared_local"} THEN "slave" ELSE old
      [] type = "shared"     -> IF old = "shared" THEN "shared" ELSE "shared_local"
      [] type = "private"    -> "private"
      [] type = "unbindable" -> "unbindable"

\* mount(MS_SLAVE | MS_SHARED | MS_PRIVATE | MS_UNBINDABLE [| MS_REC])
KChangeType(ms, h, target, type, rec) ==
    IF ~IsMountPoint(ms, target) THEN KRes("EINVAL", ms, h)
    ELSE Eval(Lookup(ms, target), LAMBDA m :
           Eval(IF rec THEN Subtree(ms, m) ELSE {m}, LAMBDA hit :
             KRes("", { IF x \in hit THEN [x EXCEPT !.prop = NewProp(x.prop, type)] ELSE x
                        : x \in ms }, h)))

HasBit(v, b) == BitAnd(v, b) # {}

\* the propagation types a platform flag word names
PropTypes(mnt_flags) ==
    { t \in {"slave", "shared", "private", "unbindable"} :
        HasBit(mnt_flags, CASE t = "slave" -> MS_SLAVE [] t = "shared" -> MS_SHARED
                            [] t = "private" -> MS_PRIVATE [] t = "unbindable" -> MS_UNBINDABLE) }

\* mount(2): what the kernel does with the translated flag word
KMount(ms, h, sh, wd, src, target, fstype, mnt_flags) ==
    IF HasBit(mnt_flags, MS_BIND)
    THEN KBind(ms, h, sh, KPath(src, wd), KPath(target, wd), HasBit(mnt_flags, MS_REC))
    ELSE IF PropTypes(mnt_flags) # {}
    THEN IF Cardinality(PropTypes(mnt_flags)) > 1 THEN KRes("EINVAL", ms, h)
         ELSE KChangeType(ms, h, KPath(target, wd),
                          CHOOSE t \in PropTypes(mnt_flags) : TRUE, HasBit(mnt_flags, MS_REC))
    ELSE KNewMount(ms, h, sh, KPath(target, wd), fstype)

\* umount2(2)
KUmount(ms, h, sh, wd, target, umnt_flags) ==
    IF ~IsMountPoint(ms, KPath(target, wd)) THEN KRes("EINVAL", ms, h)
    ELSE Eval(Lookup(ms, KPath(target, wd)), LAMBDA m :
           Eval(Subtree(ms, m), LAMBDA tree :
             LET detach == HasBit(umnt_flags, MNT_DETACH)
                 gone == IF detach THEN tree ELSE {m}
                 hostGone == { HostPathOf(ById(ms, x.parent), x.mp) :
                                 x \in { y \in gone : y.parent # 0
                                                      /\ ById(ms, y.parent).prop = "shared" } }
             IN  IF m.parent = 0 THEN KRes("EINVAL", ms, h)
                 ELSE IF ~detach /\ (tree # {m} \/ Lookup(ms, wd) = m) THEN KRes("EBUSY", ms, h)
                 ELSE KRes("", ms \ gone,
                           IF sh THEN { x \in h : x.mp \notin hostGone } ELSE View(ms \ gone))))

\* what pivot_root leaves when it goes through: the tree of the new root
\* moves to "/", everything else below put_old
PivotMoved(ms, wd, nrp, pop, nr, old, root) ==
    Eval(Subtree(ms, nr), LAMBDA tree :
      [errno |-> "",
       ms |-> { IF m \in tree
                THEN [m EXCEPT !.mp = Strip(m.mp, nrp),
                               !.parent = IF m = nr THEN 0 ELSE m.parent]
                ELSE [m EXCEPT !.mp = Strip(pop, nrp) \o m.mp,
                               !.parent = IF m = root THEN old.id ELSE m.parent] : m \in ms },
       cwd |-> IF wd = <<>> THEN <<>> ELSE Strip(pop, nrp) \o wd])

\* pivot_root(2); the result also carries the working directory
KPivot(ms, wd, new_root, put_old) ==
    CHOOSE r \in
      { IF ~IsMountPoint(ms, nrp) THEN [errno |-> "EINVAL", ms |-> ms, cwd |-> wd]
        ELSE IF nr = root THEN [errno |-> "EBUSY", ms |-> ms, cwd |-> wd]
        ELSE IF ~IsPrefix(nrp, pop) \/ ~InTree(ms, old, nr.id)
             THEN [errno |-> "EINVAL", ms |-> ms, cwd |-> wd]
        ELSE IF IsShared(old) \/ IsShared(ById(ms, nr.parent)) \/ IsShared(root)
             THEN [errno |-> "EINVAL", ms |-> ms, cwd |-> wd]
        ELSE PivotMoved(ms, wd, nrp, pop, nr, old, root)
        : nrp \in {KPath(new_root, wd)}, pop \in {KPath(put_old, wd)},
          nr \in {Lookup(ms, KPath(new_root, wd))}, old \in {Lookup(ms, KPath(put_old, wd))},
          root \in {Lookup(ms, <<>>)} } : TRUE

\* the directory a path names: file system and path inside it
Resolve(ms, path) ==
    LET m == Lookup(ms, path) IN [fs |-> m.fs, path |-> m.root \o Strip(path, m.mp)]

(***************************************************************************)
(* The functions of main.rs.                                               *)
(***************************************************************************)
Ok == [kind |-> "Ok"]
IsOk(e) == e.kind = "Ok"

\* io::Error::last_os_error()
LastOsError(errno) == [kind |-> "Os", code |-> errno]

\* libc_result that reports success whatever the call returned
LibcResultSwallow(res, happy, errno) == Ok

\* libc_result(res, happy)
LibcResult(res, happy, errno) == IF res # happy THEN LastOsError(errno) ELSE Ok

\* return value of a libc call that failed with errno ("" = did not fail)
RetOf(errno) == IF errno = "" THEN 0 ELSE -1

\* fn mount(src, target, fstype, maybe_flags); env is the failure the
\* platform injects into the call ("" = none)
Mount(ms, h, sh, wd, src, target, fstype, maybe_flags, env) ==
    LET extra_bits == IF maybe_flags = NoFlags THEN {} ELSE ExtraBits(maybe_flags)
    IN  IF extra_bits # {}
        THEN [err |-> [kind |-> "Other", text |-> "unexpected flags 0b", bits |-> ToBinary(extra_bits)],
              called |-> FALSE, errno |-> "", mnt_flags |-> {}, ms |-> ms, host |-> h]
        ELSE Eval(Translate(maybe_flags), LAMBDA mnt_flags :
               Eval(IF env # "" THEN [errno |-> env, ms |-> ms, host |-> h]
                    ELSE KMount(ms, h, sh, wd, src, target, fstype, mnt_flags), LAMBDA k :
                 [err |-> LibcResult(RetOf(k.errno), 0, k.errno),
                  called |-> TRUE, errno |-> k.errno, mnt_flags |-> mnt_flags,
                  ms |-> IF k.errno = "" THEN k.ms ELSE ms,
                  host |-> IF k.errno = "" THEN k.host ELSE h]))

\* fn umount(target, maybe_flags)
Umount(ms, h, sh, wd, target, maybe_flags, env) ==
    Eval(UmountTranslate(maybe_flags), LAMBDA umnt_flags :
      Eval(IF env # "" THEN [errno |-> env, ms |-> ms, host |-> h]
           ELSE KUmount(ms, h, sh, wd, target, umnt_flags), LAMBDA k :
        [err |-> LibcResult(RetOf(k.errno), 0, k.errno),
         called |-> TRUE, errno |-> k.errno, umnt_flags |-> umnt_flags,
         ms |-> IF k.errno = "" THEN k.ms ELSE ms,
         host |-> IF k.errno = "" THEN k.host ELSE h]))

\* fn pivot_root(new_root, put_old)
PivotRoot(ms, wd, new_root, put_old, env) ==
    Eval(IF env # "" THEN [errno |-> env, ms |-> ms, cwd |-> wd]
         ELSE KPivot(ms, wd, new_root, put_old), LAMBDA k :
      [err |-> LibcResult(RetOf(k.errno), 0, k.errno),
       errno |-> k.errno,
       ms |-> IF k.errno = "" THEN k.ms ELSE ms,
       cwd |-> IF k.errno = "" THEN k.cwd ELSE wd])

\* unshare_mnt whose Err arm also returns Ok(())
UnshareMntIgnored(env) == Ok

\* fn unshare_mnt()
UnshareMnt(env) == LibcResult(RetOf(env), 0, env)

\* the loop of cmd_from_args: cmd.arg(arg) for every argument after the first
RECURSIVE AddArgs(_, _)
AddArgs(c, rest) ==
    IF rest = <<>> THEN c
    ELSE AddArgs([c EXCEPT !.args = Append(c.args, Head(rest))], Tail(rest))

\* cmd_from_args without the skip(1): the program is also its first argument
CmdFromArgsNoSkip(program_args) ==
    AddArgs([program |-> program_args[1], args |-> <<>>, env_clear |-> FALSE], program_args)

\* fn cmd_from_args(program_args)
CmdFromArgs(program_args) ==
    AddArgs([program |-> program_args[1], args |-> <<>>, env_clear |-> FALSE], Tail(program_args))

\* Command::env_clear
EnvClear(c) == [c EXCEPT !.env_clear = TRUE]

\* the environment Command hands to the child
ChildEnv(c, parent_env) == IF c.env_clear THEN {} ELSE parent_env

(***************************************************************************)
(* Inputs of a run.                                                        *)
(***************************************************************************)
\* failures the platform can inject into a call ("" = none)
EnvOutcomes == {"", "EPERM"}

RootfsArgs == {"/srv/root", "/srv/link", "root", "/srv/root/../root", "/missing"}
ArgWords == {"-c", "x"}

RECURSIVE SeqsUpTo(_, _)
SeqsUpTo(S, n) ==
    IF n = 0 THEN { <<>> }
    ELSE LET shorter == SeqsUpTo(S, n - 1)
         IN  shorter \cup { Append(q, x) : q \in shorter, x \in S }

ArgvSet ==
    { <<"simple-bootstrap">>, <<"simple-bootstrap", "/srv/root">> }
    \cup { <<"simple-bootstrap", r, "/bin/true">> \o extra :
             r \in RootfsArgs, extra \in SeqsUpTo(ArgWords, MaxCmdArgs) }

\* names tempdir() can come up with
ScratchNames == { Abs(<<"tmp", ".tmpA">>), Abs(<<"var", "tmp", ".tmpB">>) }

NoPath == Rel(<<>>)
NoCmd == [program |-> "", args |-> <<>>, env_clear |-> FALSE]
NoErr == [text |-> "", paths |-> <<>>, cause |-> Ok]
NoReq == [op |-> "", src |-> NoPath, target |-> NoPath, fstype |-> "", flags |-> NoFlags,
          env |-> ""]
NoRet == [err |-> Ok, called |-> FALSE]

(***************************************************************************)
(* Locals of main() that are functions of the scratch directory.           *)
(***************************************************************************)
\* the host directories taken in another order
FromHostReordered == << Abs(<<"sys">>), Abs(<<"dev">>), Abs(<<"proc">>) >>

FromHost == << Abs(<<"dev">>), Abs(<<"sys">>), Abs(<<"proc">>) >>

\* scratch_dir.join(&loc[1..])
HostTarget(s, loc) == Join(s, DropFirst(loc))

\* scratch_dir.join("tmp")
TmpTarget(s) == Join(s, Rel(<<"tmp">>))

\* PathBuf::from("/tmp/old-root")
OldRoot == Abs(<<"tmp", "old-root">>)

\* put_old joined from an absolute "/tmp/old-root"
PutOldAbsolute(s) == Join(s, Abs(<<"tmp", "old-root">>))

\* scratch_dir.join("tmp/old-root")
PutOld(s) == Join(s, Rel(<<"tmp", "old-root">>))

\* old_root.join(scratch_dir) with the leading slash kept
ScratchInOldKeepSlash(s) == Join(OldRoot, s)

\* old_root.join(&scratch_dir.to_string_lossy()[1..])
ScratchInOld(s) == Join(OldRoot, DropFirst(s))

\* Path::new("/mnt")
NewCwd == Abs(<<"mnt">>)

(***************************************************************************)
(* Bookkeeping shared by the steps.                                        *)
(***************************************************************************)
CallRec(op, src, target, fstype, flags, os_flags, sys, ok) ==
    [op |-> op, src |-> src, target |-> target, fstype |-> fstype, flags |-> flags,
     os_flags |-> os_flags, sys |-> sys, ok |-> ok]

SimpleCall(op, target, ok) == CallRec(op, NonePath, target, "", NoFlags, {}, TRUE, ok)

MountCall(src, target, fstype, flags, r) ==
    CallRec("mount", src, target, fstype, flags, r.mnt_flags, r.called, r.called /\ r.errno = "")

\* Drop of tmp (TempDir): remove_dir_all on the scratch path, result ignored
DropTmpCalls(cs) ==
    IF scratch = NoPath THEN cs ELSE Append(cs, SimpleCall("remove_dir_all", scratch, TRUE))

DropTmpDirs(ms, ds) ==
    IF scratch = NoPath \/ IsMountPoint(ms, KPath(scratch, cwd)) THEN ds
    ELSE ds \ { Resolve(ms, KPath(scratch, cwd)) }

\* .expect(text) on an Err: the panic unwinds main, dropping tmp
Panic(text, paths, cause, cs) ==
    /\ pc' = "aborted"
    /\ err' = [text |-> text, paths |-> paths, cause |-> cause]
    /\ calls' = DropTmpCalls(cs)
    /\ dirs' = DropTmpDirs(mounts, dirs)
    /\ UNCHANGED <<argv, envp, args, rootfs, cmd, scratch, loop_i, unshared, mounts,
                   host, cwd, launches, req, ret>>

\* the ok field of a call record says what the OS answered, not what the
\* wrapper made of it

\* a step that went through: only what the step names changes
Goto(next) ==
    /\ pc' = next
    /\ UNCHANGED <<argv, envp, err, req, ret>>

\* one mount(...).expect(...) statement of main()
MountStep(from, next, next_i, src, target, fstype, flags, text, paths) ==
    /\ pc = from
    /\ \E env \in EnvOutcomes :
       \E r \in { Mount(mounts, host, unshared, cwd, src, target, fstype, flags, env) } :
         LET cs == Append(calls, MountCall(src, target, fstype, flags, r))
         IN  IF IsOk(r.err)
             THEN /\ Goto(next)
                  /\ mounts' = r.ms
                  /\ host' = r.host
                  /\ calls' = cs
                  /\ loop_i' = next_i
                  /\ UNCHANGED <<args, rootfs, cmd, scratch, unshared, dirs, cwd, launches>>
             ELSE Panic(text, paths, r.err, cs)

(***************************************************************************)
(* main(), one action per statement that can fail or touches the OS.       *)
(***************************************************************************)
Init ==
    /\ pc = "start"
    /\ argv \in ArgvSet
    /\ envp \in { {}, {"PATH", "HOME"} }
    /\ cwd \in { <<>>, <<"srv">> }
    /\ mounts \in { HostMounts("shared"), HostMounts("private") }
    /\ host = View(mounts)
    /\ unshared = FALSE
    /\ args = <<>>
    /\ rootfs = NoPath
    /\ cmd = NoCmd
    /\ scratch = NoPath
    /\ loop_i = 1
    /\ dirs = {}
    /\ calls = <<>>
    /\ launches = <<>>
    /\ err = NoErr
    /\ req = NoReq
    /\ ret = NoRet

\* env::args().skip(1).collect(); panic when fewer than two are left
ParseArgs ==
    /\ pc = "start"
    /\ LET a == Tail(argv)
       IN  IF Len(a) < 2
           THEN Panic("rootfs or command not provided", <<>>, Ok, calls)
           ELSE /\ Goto("canonicalize")
                /\ args' = a
                /\ UNCHANGED <<rootfs, cmd, scratch, loop_i, unshared, mounts, host, dirs,
                               cwd, calls, launches>>

\* canonicalize() whose failure is not fatal: the unresolved path is used
ResolveRootfsLenient ==
    /\ pc = "canonicalize"
    /\ LET c == Canonicalize(PathFrom(args[1]), cwd)
       IN  /\ Goto("cmd")
           /\ rootfs' = IF c.ok THEN c.path ELSE Abs(KPath(PathFrom(args[1]), cwd))
           /\ calls' = Append(calls, SimpleCall("canonicalize", PathFrom(args[1]), c.ok))
           /\ UNCHANGED <<args, cmd, scratch, loop_i, unshared, mounts, host, dirs, cwd, launches>>

\* PathBuf::from(rootfs_unresolved).canonicalize().expect(..)
ResolveRootfs ==
    /\ pc = "canonicalize"
    /\ LET c  == Canonicalize(PathFrom(args[1]), cwd)
           cs == Append(calls, SimpleCall("canonicalize", PathFrom(args[1]), c.ok))
       IN  IF c.ok
           THEN /\ Goto("cmd")
                /\ rootfs' = c.path
                /\ calls' = cs
                /\ UNCHANGED <<args, cmd, scratch, loop_i, unshared, mounts, host, dirs,
                               cwd, launches>>
           ELSE Panic("cannot resolve path: {}", <<PathFrom(args[1])>>, LastOsError("ENOENT"), cs)

\* cmd_from_args(&args[1..]); cmd.env_clear()
BuildCmd ==
    /\ pc = "cmd"
    /\ Goto("tempdir")
    /\ cmd' = EnvClear(CmdFromArgs(Tail(args)))
    /\ UNCHANGED <<args, rootfs, scratch, loop_i, unshared, mounts, host, dirs, cwd,
                   calls, launches>>

\* tempdir().expect(..)
MakeTempDir ==
    /\ pc = "tempdir"
    /\ \E env \in EnvOutcomes, s \in ScratchNames :
         IF env = ""
         THEN /\ Goto("unshare")
              /\ scratch' = s
              /\ dirs' = dirs \cup { Resolve(mounts, KPath(s, cwd)) }
              /\ calls' = Append(calls, SimpleCall("tempdir", s, TRUE))
              /\ UNCHANGED <<args, rootfs, cmd, loop_i, unshared, mounts, host, cwd, launches>>
         ELSE Panic("cannot create a temporary directory", <<>>, LastOsError(env),
                    Append(calls, SimpleCall("tempdir", NoPath, FALSE)))

\* unshare_mnt() called again when it failed
UnshareRetry ==
    /\ pc = "unshare"
    /\ \E env \in EnvOutcomes :
         /\ Goto(IF env = "" THEN "slave_root" ELSE "unshare")
         /\ unshared' = (env = "")
         /\ calls' = Append(calls, SimpleCall("unshare", NonePath, env = ""))
         /\ UNCHANGED <<args, rootfs, cmd, scratch, loop_i, mounts, host, dirs, cwd, launches>>

\* unshare_mnt().expect(..)
Unshare ==
    /\ pc = "unshare"
    /\ \E env \in EnvOutcomes :
         LET r  == UnshareMnt(env)
             cs == Append(calls, SimpleCall("unshare", NonePath, env = ""))
         IN  IF IsOk(r)
             THEN /\ Goto("slave_root")
                  /\ unshared' = (env = "")
                  /\ calls' = cs
                  /\ UNCHANGED <<args, rootfs, cmd, scratch, loop_i, mounts, host, dirs,
                                 cwd, launches>>
             ELSE Panic("failed to unshare mount namespace", <<>>, r, cs)

\* the first mount made recursively shared instead of recursively slave
SlaveRootShared ==
    MountStep("slave_root", "bind_scratch", loop_i, NonePath, Abs(<<>>), "", BitOr(REC, SHARED),
              "cannot make / recursively shared", <<>>)

\* mount("none", "/", "", REC | SLAVE)
SlaveRoot ==
    MountStep("slave_root", "bind_scratch", loop_i, NonePath, Abs(<<>>), "", BitOr(REC, SLAVE),
              "cannot make / recursively shared", <<>>)

\* mount(scratch_dir_str, scratch_dir_str, "", BIND)
BindScratch ==
    MountStep("bind_scratch", "bind_rootfs", loop_i, scratch, scratch, "", BIND,
              "cannot make {} a mount point", <<scratch>>)

\* the rootfs bind asked for as REC | BIND | SLAVE in one request
BindRootfsSlave ==
    MountStep("bind_rootfs", "slave_scratch", loop_i, rootfs, scratch, "",
              BitOr(BitOr(REC, BIND), SLAVE),
              "cannot bind mount rootfs from {} to {}", <<rootfs, scratch>>)

\* mount(&rootfs_str, scratch_dir_str, "", REC | BIND)
BindRootfs ==
    MountStep("bind_rootfs", "slave_scratch", loop_i, rootfs, scratch, "", BitOr(REC, BIND),
              "cannot bind mount rootfs from {} to {}", <<rootfs, scratch>>)

\* mount("none", scratch_dir_str, "", REC | SLAVE)
SlaveScratch ==
    MountStep("slave_scratch", "bind_host", 1, NonePath, scratch, "", BitOr(REC, SLAVE),
              "cannot make rootfs at {} rslave", <<scratch>>)

\* for loc in from_host: mount(loc, &target, "", REC | BIND)
\* all host directories bound first, made rslave afterwards
BindHostAllFirst ==
    /\ loop_i \in 1..Len(FromHost)
    /\ MountStep("bind_host", IF loop_i < Len(FromHost) THEN "bind_host" ELSE "slave_host",
                 IF loop_i < Len(FromHost) THEN loop_i + 1 ELSE loop_i, FromHost[loop_i],
                 HostTarget(scratch, FromHost[loop_i]), "", BitOr(REC, BIND),
                 "cannot bind mount {} to {}",
                 <<FromHost[loop_i], HostTarget(scratch, FromHost[loop_i])>>)

BindHost ==
    /\ loop_i \in 1..Len(FromHost)
    /\ MountStep("bind_host", "slave_host", loop_i, FromHost[loop_i],
                 HostTarget(scratch, FromHost[loop_i]), "", BitOr(REC, BIND),
                 "cannot bind mount {} to {}",
                 <<FromHost[loop_i], HostTarget(scratch, FromHost[loop_i])>>)

\* for loc in from_host: mount("none", &target, "", REC | SLAVE)
SlaveHost ==
    /\ loop_i \in 1..Len(FromHost)
    /\ MountStep("slave_host", IF loop_i < Len(FromHost) THEN "bind_host" ELSE "tmpfs",
                 loop_i + 1, NonePath, HostTarget(scratch, FromHost[loop_i]), "", BitOr(REC, SLAVE),
                 "cannot make {} rslave", <<HostTarget(scratch, FromHost[loop_i])>>)

\* mount("none", scratch_dir.join("tmp"), "tmpfs", None)
MountTmpfs ==
    MountStep("tmpfs", "create_put_old", loop_i, NonePath, TmpTarget(scratch), "tmpfs", NoFlags,
              "cannot mount a new tmpfs", <<>>)

\* fs::create_dir: [errno, ds]
CreateDir(ms, ds, wd, path) ==
    LET d == Resolve(ms, KPath(path, wd))
    IN  IF d \in ds THEN [errno |-> "EEXIST", ds |-> ds] ELSE [errno |-> "", ds |-> ds \cup {d}]

\* fs::remove_dir: [errno, ds]
RemoveDir(ms, ds, wd, path) ==
    LET d == Resolve(ms, KPath(path, wd))
    IN  IF IsMountPoint(ms, KPath(path, wd)) THEN [errno |-> "EBUSY", ds |-> ds]
        ELSE IF d \notin ds THEN [errno |-> "ENOENT", ds |-> ds]
        ELSE [errno |-> "", ds |-> ds \ {d}]

\* fs::create_dir(&put_old).expect(..)
CreatePutOld ==
    /\ pc = "create_put_old"
    /\ \E env \in EnvOutcomes :
         LET k     == CreateDir(mounts, dirs, cwd, PutOld(scratch))
             errno == IF env # "" THEN env ELSE k.errno
             cs    == Append(calls, SimpleCall("create_dir", PutOld(scratch), errno = ""))
         IN  IF errno = ""
             THEN /\ Goto("pivot")
                  /\ dirs' = k.ds
                  /\ calls' = cs
                  /\ UNCHANGED <<args, rootfs, cmd, scratch, loop_i, unshared, mounts, host,
                                 cwd, launches>>
             ELSE Panic("cannot create temporary directory for old root", <<>>,
                        LastOsError(errno), cs)

\* pivot_root(scratch_dir_str, put_old_str).expect(..)
Pivot ==
    /\ pc = "pivot"
    /\ \E env \in EnvOutcomes :
       \E r \in { PivotRoot(mounts, cwd, scratch, PutOld(scratch), env) } :
         LET cs == Append(calls, CallRec("pivot_root", scratch, PutOld(scratch), "", NoFlags, {},
                                         TRUE, r.errno = ""))
         IN  IF IsOk(r.err)
             THEN /\ Goto("umount_scratch")
                  /\ mounts' = r.ms
                  /\ cwd' = r.cwd
                  /\ calls' = cs
                  /\ UNCHANGED <<args, rootfs, cmd, scratch, loop_i, unshared, host, dirs,
                                 launches>>
             ELSE Panic("cannot pivot root to {}", <<scratch>>, r.err, cs)

\* one umount(...).expect(...) statement of main()
UmountStep(from, next, target, flags, text) ==
    /\ pc = from
    /\ \E env \in EnvOutcomes :
       \E r \in { Umount(mounts, host, unshared, cwd, target, flags, env) } :
         LET cs == Append(calls, CallRec("umount", NonePath, target, "", flags, r.umnt_flags,
                                         r.called, r.errno = ""))
         IN  IF IsOk(r.err)
             THEN /\ Goto(next)
                  /\ mounts' = r.ms
                  /\ host' = r.host
                  /\ calls' = cs
                  /\ UNCHANGED <<args, rootfs, cmd, scratch, loop_i, unshared, dirs, cwd,
                                 launches>>
             ELSE Panic(text, <<>>, r.err, cs)

\* remove_dir whose failure is logged and ignored
RemoveDirStepBestEffort(from, next, path, text) ==
    /\ pc = from
    /\ \E env \in EnvOutcomes :
         LET k     == RemoveDir(mounts, dirs, cwd, path)
             errno == IF env # "" THEN env ELSE k.errno
         IN  /\ Goto(next)
             /\ dirs' = IF errno = "" THEN k.ds ELSE dirs
             /\ calls' = Append(calls, SimpleCall("remove_dir", path, errno = ""))
             /\ UNCHANGED <<args, rootfs, cmd, scratch, loop_i, unshared, mounts, host,
                            cwd, launches>>

\* one fs::remove_dir(...).expect(...) statement of main()
RemoveDirStep(from, next, path, text) ==
    /\ pc = from
    /\ \E env \in EnvOutcomes :
         LET k     == RemoveDir(mounts, dirs, cwd, path)
             errno == IF env # "" THEN env ELSE k.errno
             cs    == Append(calls, SimpleCall("remove_dir", path, errno = ""))
         IN  IF errno = ""
             THEN /\ Goto(next)
                  /\ dirs' = k.ds
                  /\ calls' = cs
                  /\ UNCHANGED <<args, rootfs, cmd, scratch, loop_i, unshared, mounts, host,
                                 cwd, launches>>
             ELSE Panic(text, <<>>, LastOsError(errno), cs)

\* umount(&scratch_in_old, None)
UmountScratch ==
    UmountStep("umount_scratch", "remove_scratch", ScratchInOld(scratch), NoFlags,
               "cannot unmount scratch directory")

\* fs::remove_dir(scratch_in_old)
RemoveScratch ==
    RemoveDirStep("remove_scratch", "slave_old_root", ScratchInOld(scratch),
                  "cannot remove old scratch location")

\* main() without the mount that makes the old root slave
SlaveOldRootSkipped ==
    /\ pc = "slave_old_root"
    /\ Goto("umount_old_root")
    /\ UNCHANGED <<args, rootfs, cmd, scratch, loop_i, unshared, mounts, host, dirs, cwd,
                   calls, launches>>

\* mount("none", old_root_str, "", REC | SLAVE)
SlaveOldRoot ==
    MountStep("slave_old_root", "umount_old_root", loop_i, NonePath, OldRoot, "",
              BitOr(REC, SLAVE), "cannot switch old root to slave", <<>>)

\* umount(old_root_str, Some(DETACH))
UmountOldRoot ==
    UmountStep("umount_old_root", "remove_old_root", OldRoot, DETACH, "cannot unmount old root")

\* fs::remove_dir(old_root)
RemoveOldRoot ==
    RemoveDirStep("remove_old_root", "chdir", OldRoot, "cannot remove old root")

\* set_current_dir tried again when it failed
ChdirRetry ==
    /\ pc = "chdir"
    /\ \E env \in EnvOutcomes :
         /\ Goto(IF env = "" THEN "launch" ELSE "chdir")
         /\ cwd' = IF env = "" THEN KPath(NewCwd, cwd) ELSE cwd
         /\ calls' = Append(calls, SimpleCall("chdir", NewCwd, env = ""))
         /\ UNCHANGED <<args, rootfs, cmd, scratch, loop_i, unshared, mounts, host, dirs,
                        launches>>

\* env::set_current_dir(&new_cwd).expect(..)
Chdir ==
    /\ pc = "chdir"
    /\ \E env \in EnvOutcomes :
         LET cs == Append(calls, SimpleCall("chdir", NewCwd, env = ""))
         IN  IF env = ""
             THEN /\ Goto("launch")
                  /\ cwd' = KPath(NewCwd, cwd)
                  /\ calls' = cs
                  /\ UNCHANGED <<args, rootfs, cmd, scratch, loop_i, unshared, mounts, host,
                                 dirs, launches>>
             ELSE Panic("cannot change directory to {}", <<NewCwd>>, LastOsError(env), cs)

\* what Command::status starts
LaunchRec(c, parent_env, wd) ==
    [program |-> c.program, args |-> c.args, env |-> ChildEnv(c, parent_env), cwd |-> wd]

\* cmd.status().expect(..); main returns and tmp is dropped
Launch ==
    /\ pc = "launch"
    /\ launches' = Append(launches, LaunchRec(cmd, envp, cwd))
    /\ \E env \in EnvOutcomes :
         IF env = ""
         THEN /\ pc' = "done"
              /\ calls' = DropTmpCalls(calls)
              /\ dirs' = DropTmpDirs(mounts, dirs)
              /\ UNCHANGED <<argv, envp, args, rootfs, cmd, scratch, loop_i, unshared,
                             mounts, host, cwd, err, req, ret>>
         ELSE /\ pc' = "aborted"
              /\ err' = [text |-> "failed to execute process", paths |-> <<>>,
                         cause |-> LastOsError(env)]
              /\ calls' = DropTmpCalls(calls)
              /\ dirs' = DropTmpDirs(mounts, dirs)
              /\ UNCHANGED <<argv, envp, args, rootfs, cmd, scratch, loop_i, unshared,
                             mounts, host, cwd, req, ret>>

Next ==
    \/ ParseArgs \/ ResolveRootfs \/ BuildCmd \/ MakeTempDir \/ Unshare
    \/ SlaveRoot \/ BindScratch \/ BindRootfs \/ SlaveScratch
    \/ BindHost \/ SlaveHost \/ MountTmpfs
    \/ CreatePutOld \/ Pivot
    \/ UmountScratch \/ RemoveScratch \/ SlaveOldRoot \/ UmountOldRoot \/ RemoveOldRoot
    \/ Chdir \/ Launch

Spec == Init /\ [][Next]_vars

\* every call main() makes returns, so main() always takes its next step
LiveSpec == Spec /\ WF_vars(Next)

(***************************************************************************)
(* mount() and umount() on their own: any caller, any flag value.  The     *)
(* process already has its own namespace and sits in "/".                  *)
(***************************************************************************)
FlagValues == SUBSET (0 .. (FlagBits - 1))

Requests ==
    { [op |-> "mount", src |-> s, target |-> t, fstype |-> f, flags |-> fl, env |-> e] :
        s \in {NonePath, Abs(<<"dev">>)},
        t \in {Abs(<<>>), Abs(<<"dev">>), Abs(<<"srv", "root">>)},
        f \in {"", "tmpfs"},
        fl \in FlagValues \cup {NoFlags},
        e \in EnvOutcomes }
    \cup
    { [op |-> "umount", src |-> NonePath, target |-> t, fstype |-> "", flags |-> fl, env |-> e] :
        t \in {Abs(<<"dev">>), Abs(<<"dev", "pts">>), Abs(<<"srv", "root">>)},
        fl \in FlagValues \cup {NoFlags},
        e \in EnvOutcomes }

InitMount ==
    /\ pc = "req"
    /\ req \in Requests
    /\ argv = <<"simple-bootstrap">>
    /\ envp = {}
    /\ cwd = <<>>
    /\ mounts \in { HostMounts("shared"), HostMounts("private") }
    /\ host = View(mounts)
    /\ unshared = TRUE
    /\ args = <<>>
    /\ rootfs = NoPath
    /\ cmd = NoCmd
    /\ scratch = NoPath
    /\ loop_i = 1
    /\ dirs = {}
    /\ calls = <<>>
    /\ launches = <<>>
    /\ err = NoErr
    /\ ret = NoRet

\* a call of mount(req.src, req.target, req.fstype, req.flags)
MountReq ==
    /\ pc = "req"
    /\ req.op = "mount"
    /\ \E r \in { Mount(mounts, host, unshared, cwd, req.src, req.target, req.fstype,
                         req.flags, req.env) } :
           /\ ret' = [err |-> r.err, called |-> r.called]
           /\ mounts' = r.ms
           /\ host' = r.host
           /\ calls' = Append(calls, MountCall(req.src, req.target, req.fstype, req.flags, r))
    /\ pc' = "ret"
    /\ UNCHANGED <<argv, envp, args, rootfs, cmd, scratch, loop_i, unshared, dirs, cwd,
                   launches, err, req>>

\* a call of umount(req.target, req.flags)
UmountReq ==
    /\ pc = "req"
    /\ req.op = "umount"
    /\ \E r \in { Umount(mounts, host, unshared, cwd, req.target, req.flags, req.env) } :
           /\ ret' = [err |-> r.err, called |-> r.called]
           /\ mounts' = r.ms
           /\ host' = r.host
           /\ calls' = Append(calls, CallRec("umount", NonePath, req.target, "", req.flags,
                                             r.umnt_flags, r.called, r.errno = ""))
    /\ pc' = "ret"
    /\ UNCHANGED <<argv, envp, args, rootfs, cmd, scratch, loop_i, unshared, dirs, cwd,
                   launches, err, req>>

NextMount == MountReq \/ UmountReq

MountSpec == InitMount /\ [][NextMount]_vars

\* runs of main() together with single calls of mount() and umount()
InitAll == Init \/ InitMount

NextAll == Next \/ NextMount

AllSpec == InitAll /\ [][NextAll]_vars

(***************************************************************************)
(* Properties.                                                             *)
(***************************************************************************)
\* the calls of the pipeline that C1 lists as steps
StepOps == {"unshare", "mount", "create_dir", "pivot_root", "umount", "remove_dir", "chdir"}

CountOp(op) == Cardinality({ i \in DOMAIN calls : calls[i].op = op })

MountTableOps == {"mount", "umount", "pivot_root"}

\* C1: the launcher is invoked only when namespace detachment, all twelve
\* mounts, the creation of the old-root placeholder, pivot_root, both
\* unmounts, both directory removals and the chdir were issued and each of
\* them succeeded; once one of them has failed the run is aborted and the
\* launcher has not been and is not invoked.
C1_LaunchOnlyAfterAllSteps ==
    /\ launches # <<>> =>
         /\ \A i \in DOMAIN calls : calls[i].op \in StepOps => calls[i].ok
         /\ CountOp("unshare") = 1
         /\ CountOp("mount") = 12
         /\ CountOp("create_dir") = 1
         /\ CountOp("pivot_root") = 1
         /\ CountOp("umount") = 2
         /\ CountOp("remove_dir") = 2
         /\ CountOp("chdir") = 1
    /\ (\E i \in DOMAIN calls : calls[i].op \in StepOps /\ ~calls[i].ok) =>
         pc = "aborted" /\ launches = <<>>

\* the launcher has run at the end of a complete pipeline
C1_Witness == pc = "done" /\ Len(launches) = 1 /\ CountOp("mount") = 12

\* C2: unshare is only ever called after a successful canonicalization of
\* the rootfs argument, and a failed canonicalization aborts the run with no
\* unshare, mount, umount or pivot_root call issued.
C2_CanonicalizeBeforeUnshare ==
    /\ \A i \in DOMAIN calls : calls[i].op = "unshare" =>
         \E j \in 1..(i - 1) : calls[j].op = "canonicalize" /\ calls[j].ok
    /\ (\E j \in DOMAIN calls : calls[j].op = "canonicalize" /\ ~calls[j].ok) =>
         /\ pc = "aborted"
         /\ \A i \in DOMAIN calls : calls[i].op \notin MountTableOps \cup {"unshare"}

\* the rootfs argument did not resolve and the run has ended
C2_Witness ==
    /\ pc = "aborted"
    /\ \E j \in DOMAIN calls : calls[j].op = "canonicalize" /\ ~calls[j].ok

\* C3: every umount of /tmp/old-root is preceded by a successful
\* mount("none", "/tmp/old-root", "", REC | SLAVE), and when that umount is
\* about to be issued no mount of the old root's tree is shared with the host.
C3_OldRootSlaveBeforeUmount ==
    /\ \A i \in DOMAIN calls : (calls[i].op = "umount" /\ calls[i].target = OldRoot) =>
         \E j \in 1..(i - 1) :
            /\ calls[j].op = "mount" /\ calls[j].ok
            /\ calls[j].src = NonePath /\ calls[j].target = OldRoot
            /\ calls[j].os_flags = MS_REC \cup MS_SLAVE
    /\ pc = "umount_old_root" =>
         /\ IsMountPoint(mounts, OldRoot.comps)
         /\ \A m \in mounts : InTree(mounts, m, Lookup(mounts, OldRoot.comps).id) => m.prop # "shared"

\* the old root of a host with shared mounts has been unmounted
C3_Witness ==
    /\ pc = "remove_old_root"
    /\ \E m \in mounts : m.prop = "slave"
    /\ \E i \in DOMAIN calls : calls[i].op = "umount" /\ calls[i].target = OldRoot /\ calls[i].ok

\* the mount table the host namespace has before the run
HostBefore == View(HostMounts("shared"))

\* C4: whatever prefix of the pipeline has run, failed step included, the
\* mount table of the host namespace is the one it had before the run.
C4_HostUntouched == host = HostBefore

\* a complete run on a host whose mounts were shared: binds, the tmpfs, the
\* pivot and both unmounts have happened
C4_Witness ==
    /\ pc = "done"
    /\ \E m \in mounts : m.prop = "slave"
    /\ CountOp("umount") = 2 /\ CountOp("pivot_root") = 1

\* the bits of a flag word that are none of the six known tags
UnknownBits(flags) == { b \in flags : b \notin 0..5 }

\* C5: a mount() call whose flag value has a bit outside the six known tags
\* returns an error that names exactly those bits, the mount syscall is not
\* invoked and the mount tables are what they were.
C5_RejectsUnknownBits ==
    (pc = "ret" /\ req.op = "mount" /\ req.flags # NoFlags /\ UnknownBits(req.flags) # {}) =>
        /\ ret.err.kind = "Other"
        /\ FromBinary(ret.err.bits) = UnknownBits(req.flags)
        /\ ~ret.called
        /\ Len(calls) = 1 /\ ~calls[1].sys
        /\ mounts \in { HostMounts("shared"), HostMounts("private") }
        /\ host = HostBefore

\* mount() has returned for a flag value with a known and an unknown bit
C5_Witness ==
    /\ pc = "ret" /\ req.op = "mount"
    /\ req.flags # NoFlags /\ 6 \in req.flags /\ 1 \in req.flags
    /\ ret.err.kind = "Other"

\* C6: the flag word mount() hands to the syscall depends on the flag set
\* only: it is the union of the translations of any two disjoint parts of
\* the set, and it is 0 for an absent and for an empty flag set.
C6_TranslateDistributes ==
    (pc = "ret" /\ req.op = "mount" /\ ret.called) =>
        /\ (req.flags = NoFlags \/ req.flags = {}) => calls[1].os_flags = {}
        /\ req.flags # NoFlags =>
             \A f1 \in SUBSET req.flags :
                calls[1].os_flags = BitOr(Translate(f1), Translate(req.flags \ f1))

\* mount() has called the syscall for REC | BIND
C6_Witness ==
    /\ pc = "ret" /\ req.op = "mount" /\ ret.called
    /\ req.flags = REC \cup BIND
    /\ calls[1].os_flags = MS_REC \cup MS_BIND

\* C7: when the mount syscall fails, the error mount() returns carries the
\* OS error code and the source and target of the failed call.
C7_ErrorNamesSourceAndTarget ==
    (pc = "ret" /\ req.op = "mount" /\ ret.called /\ ~calls[1].ok) =>
        /\ "code" \in DOMAIN ret.err
        /\ "source" \in DOMAIN ret.err
        /\ "target" \in DOMAIN ret.err
        /\ ret.err.source = req.src
        /\ ret.err.target = req.target

\* the mount requests of the scratch-root build, in the order of the claim
ExpectedBuild ==
    LET S(p) == Abs(scratch.comps \o p)
        rslave == {0, 2}
        rbind  == {0, 1}
        M(src, target, fstype, flags) ==
            [src |-> src, target |-> target, fstype |-> fstype, flags |-> flags]
    IN  << M(NonePath, Abs(<<>>), "", rslave),
           M(scratch, scratch, "", {1}),
           M(Abs(<<"srv", "root">>), scratch, "", rbind),
           M(NonePath, scratch, "", rslave),
           M(Abs(<<"dev">>), S(<<"dev">>), "", rbind),
           M(NonePath, S(<<"dev">>), "", rslave),
           M(Abs(<<"sys">>), S(<<"sys">>), "", rbind),
           M(NonePath, S(<<"sys">>), "", rslave),
           M(Abs(<<"proc">>), S(<<"proc">>), "", rbind),
           M(NonePath, S(<<"proc">>), "", rslave),
           M(NonePath, S(<<"tmp">>), "tmpfs", NoFlags) >>

IsMountCall(c) == c.op = "mount"

\* C8: once pivot_root has been called, the mount requests issued before it
\* are the eleven of the scratch-root build, in order, each one successful.
C8_BuildOrder ==
    (\E i \in DOMAIN calls : calls[i].op = "pivot_root") =>
        LET mc == SelectSeq(calls, IsMountCall)
        IN  /\ Len(mc) >= Len(ExpectedBuild)
            /\ \A k \in DOMAIN ExpectedBuild :
                 /\ mc[k].ok
                 /\ [src |-> mc[k].src, target |-> mc[k].target, fstype |-> mc[k].fstype,
                     flags |-> mc[k].flags] = ExpectedBuild[k]
            /\ \A i \in DOMAIN calls : calls[i].op = "pivot_root" =>
                 Cardinality({ j \in 1..(i - 1) : calls[j].op = "mount" }) = Len(ExpectedBuild)

\* the pivot has gone through
C8_Witness ==
    /\ pc = "umount_scratch"
    /\ \E i \in DOMAIN calls : calls[i].op = "pivot_root" /\ calls[i].ok

\* C9: whenever the launcher has been invoked the pivot has succeeded, the
\* root is the rootfs, neither the old root nor the scratch self-bind is
\* mounted, and the scratch directory and the old-root placeholder are gone.
C9_LaunchOnlyWhenCleaned ==
    launches # <<>> =>
        /\ \E i \in DOMAIN calls : calls[i].op = "pivot_root" /\ calls[i].ok
        /\ Lookup(mounts, <<>>).fs = "rootfs" /\ Lookup(mounts, <<>>).root = <<"srv", "root">>
        /\ ~\E m \in mounts : m.fs = "rootfs" /\ m.root = <<>>
        /\ ~\E m \in mounts : m.fs = "rootfs" /\ m.root = scratch.comps
        /\ ~IsMountPoint(mounts, OldRoot.comps)
        /\ ~IsMountPoint(mounts, ScratchInOld(scratch).comps)
        /\ dirs = {}

\* the launcher has been invoked in the new root: the rootfs, the three host
\* trees (/dev with /dev/pts) and the tmpfs are all that is mounted
C9_Witness == launches # <<>> /\ Cardinality(mounts) = 6

\* C10: the launcher is invoked at most once; on a successful run exactly
\* once, in /mnt after the chdir, with the program and the arguments of the
\* command line in their order, and with an empty environment.
C10_LaunchExact ==
    /\ Len(launches) <= 1
    /\ pc = "done" =>
         /\ Len(launches) = 1
         /\ launches[1].cwd = <<"mnt">>
         /\ <<launches[1].program>> \o launches[1].args = SubSeq(argv, 3, Len(argv))
         /\ launches[1].env = {}
         /\ \E i \in DOMAIN calls : calls[i].op = "chdir" /\ calls[i].ok /\ calls[i].target = NewCwd

\* a successful run of a command with two arguments whose caller had
\* environment variables
C10_Witness ==
    /\ pc = "done" /\ Len(launches) = 1
    /\ Len(launches[1].args) = 2
    /\ envp # {}

\* C11: in any run, finished or not, successful or aborted, unshare has
\* been called at most once.
C11_UnshareAtMostOnce == CountOp("unshare") <= 1

\* a run has ended after its one call of unshare
C11_Witness == pc \in {"done", "aborted"} /\ CountOp("unshare") = 1

\* C12: every mount, umount and pivot_root call comes after a successful
\* unshare; when unshare fails the run is aborted, no such call has been
\* issued and the mount table is the one of the original namespace.
C12_NothingBeforeUnshare ==
    /\ \A i \in DOMAIN calls : calls[i].op \in MountTableOps =>
         \E j \in 1..(i - 1) : calls[j].op = "unshare" /\ calls[j].ok
    /\ (\E j \in DOMAIN calls : calls[j].op = "unshare" /\ ~calls[j].ok) =>
         /\ pc = "aborted"
         /\ \A i \in DOMAIN calls : calls[i].op \notin MountTableOps
         /\ mounts \in { HostMounts("shared"), HostMounts("private") }
         /\ host = HostBefore
         /\ ~unshared

\* unshare has failed
C12_Witness ==
    /\ pc = "aborted"
    /\ \E j \in DOMAIN calls : calls[j].op = "unshare" /\ ~calls[j].ok

\* C13: once a step has failed, no mount, umount, pivot_root or
\* directory-removal call follows it.
DirRemovalOps == {"remove_dir", "remove_dir_all"}

C13_NothingAfterFailure ==
    \A i \in DOMAIN calls : ~calls[i].ok =>
        \A j \in (i + 1)..Len(calls) :
            calls[j].op \notin (MountTableOps \cup DirRemovalOps)

\* C14: when pivot_root is about to be invoked the scratch directory is a
\* mount point, a tmpfs is mounted at <scratch>/tmp, and put_old is the
\* directory old-root just created at the top of that tmpfs, below the new
\* root; pivot_root is invoked only right after that creation succeeded.
C14_PivotPreconditions ==
    /\ pc = "pivot" =>
         /\ IsMountPoint(mounts, KPath(scratch, cwd))
         /\ IsMountPoint(mounts, KPath(TmpTarget(scratch), cwd))
         /\ Lookup(mounts, KPath(TmpTarget(scratch), cwd)).fs = "tmpfs"
         /\ Lookup(mounts, KPath(PutOld(scratch), cwd)).mp = KPath(TmpTarget(scratch), cwd)
         /\ Resolve(mounts, KPath(PutOld(scratch), cwd)) = [fs |-> "tmpfs", path |-> <<"old-root">>]
         /\ Resolve(mounts, KPath(PutOld(scratch), cwd)) \in dirs
         /\ IsPrefix(KPath(scratch, cwd), KPath(PutOld(scratch), cwd))
         /\ KPath(PutOld(scratch), cwd) # KPath(scratch, cwd)
         /\ calls[Len(calls)] = SimpleCall("create_dir", PutOld(scratch), TRUE)
    /\ \A i \in DOMAIN calls : calls[i].op = "pivot_root" =>
         /\ i > 1
         /\ calls[i - 1] = SimpleCall("create_dir", PutOld(scratch), TRUE)
         /\ calls[i].src = scratch
         /\ calls[i].target = PutOld(scratch)
         /\ \E j \in 1..(i - 1) :
              /\ calls[j].op = "mount" /\ calls[j].ok
              /\ calls[j].fstype = "tmpfs" /\ calls[j].target = TmpTarget(scratch)
    /\ (\E i \in DOMAIN calls : calls[i].op = "create_dir" /\ ~calls[i].ok) =>
         \A j \in DOMAIN calls : calls[j].op # "pivot_root"

\* pivot_root has been invoked and went through
C14_Witness == \E i \in DOMAIN calls : calls[i].op = "pivot_root" /\ calls[i].ok

\* C15: the rslave request of a host directory is the call issued right
\* after its rbind succeeded, with no call in between; so at any moment,
\* and at an abort inside the loop in particular, at most one host target is
\* bound and not yet slave, and at an abort it is the target of the failed
\* call.
IsHostBind(c) ==
    /\ c.op = "mount"
    /\ \E k \in DOMAIN FromHost : c.src = FromHost[k] /\ c.target = HostTarget(scratch, FromHost[k])
    /\ Contains(c.flags, BIND)

IsSlaveOf(c, t) ==
    c.op = "mount" /\ c.src = NonePath /\ c.target = t /\ c.flags = BitOr(REC, SLAVE)

BoundNotSlave ==
    { t \in { calls[i].target : i \in DOMAIN calls } :
        \E i \in DOMAIN calls :
            /\ IsHostBind(calls[i]) /\ calls[i].ok /\ calls[i].target = t
            /\ ~\E j \in (i + 1)..Len(calls) : IsSlaveOf(calls[j], t) /\ calls[j].ok }

C15_BindThenSlavePerHostDir ==
    /\ \A i \in DOMAIN calls : (IsHostBind(calls[i]) /\ calls[i].ok /\ i < Len(calls)) =>
         IsSlaveOf(calls[i + 1], calls[i].target)
    /\ Cardinality(BoundNotSlave) <= 1
    /\ BoundNotSlave # {} => pc \in {"slave_host", "aborted"}
    /\ (pc = "aborted" /\ BoundNotSlave # {}) =>
         \E i \in DOMAIN calls :
            /\ ~calls[i].ok
            /\ calls[i].target \in BoundNotSlave
            /\ \A j \in DOMAIN calls : ~calls[j].ok => j = i

\* the run aborted in the second or third round of the loop with the rslave
\* request of that round's target refused
C15_Witness ==
    /\ pc = "aborted"
    /\ loop_i > 1
    /\ BoundNotSlave = { HostTarget(scratch, FromHost[loop_i]) }

\* C16: after a successful pivot the first umount targets /tmp/old-root
\* followed by the scratch path without its leading slash; that path is a
\* mount point and the one mount on it is the self-bind of the scratch
\* directory; the umount takes that mount out of the table and nothing else,
\* and the old root stays mounted at /tmp/old-root until the detach umount.
ScratchInOldPath == <<"tmp", "old-root">> \o scratch.comps

OldRootMounted ==
    /\ IsMountPoint(mounts, KPath(OldRoot, cwd))
    /\ Lookup(mounts, KPath(OldRoot, cwd)).fs = "rootfs"
    /\ Lookup(mounts, KPath(OldRoot, cwd)).root = <<>>

C16_State ==
    /\ pc = "umount_scratch" =>
         /\ calls[Len(calls)].op = "pivot_root" /\ calls[Len(calls)].ok
         /\ ScratchInOld(scratch) = Abs(ScratchInOldPath)
         /\ KPath(ScratchInOld(scratch), cwd) = ScratchInOldPath
         /\ IsMountPoint(mounts, ScratchInOldPath)
         /\ Cardinality({ m \in mounts : m.mp = ScratchInOldPath }) = 1
         /\ Lookup(mounts, ScratchInOldPath).fs = "rootfs"
         /\ Lookup(mounts, ScratchInOldPath).root = scratch.comps
         /\ OldRootMounted
    /\ \A i \in DOMAIN calls :
         (calls[i].op = "umount" /\ \A j \in 1..(i - 1) : calls[j].op # "umount") =>
            /\ calls[i].target = Abs(ScratchInOldPath)
            /\ calls[i].flags = NoFlags
            /\ calls[i - 1].op = "pivot_root" /\ calls[i - 1].ok
    /\ pc \in {"remove_scratch", "slave_old_root", "umount_old_root"} =>
         /\ OldRootMounted
         /\ ~IsMountPoint(mounts, ScratchInOldPath)
    /\ pc \in {"remove_old_root", "chdir", "launch", "done"} =>
         ~HasMount(mounts, KPath(OldRoot, cwd)) \/ ~IsMountPoint(mounts, KPath(OldRoot, cwd))

C16_Step ==
    (pc = "umount_scratch" /\ pc' = "remove_scratch") =>
        /\ mounts' = mounts \ { Lookup(mounts, ScratchInOldPath) }
        /\ Cardinality(mounts') = Cardinality(mounts) - 1

C16_ScratchUmountOnly == [](C16_State) /\ [][C16_Step]_vars

\* the scratch self-bind has been unmounted from the old root
C16_Witness ==
    /\ pc = "remove_scratch"
    /\ calls[Len(calls)].op = "umount" /\ calls[Len(calls)].ok
    /\ calls[Len(calls)].target = Abs(ScratchInOldPath)

\* C17: main() unmounts the old root with DETACH, which umount() hands to
\* umount2 as MNT_DETACH, and the scratch self-bind with no flags, which
\* umount() hands over as 0; for every input the word umount() hands to
\* umount2 is MNT_DETACH when DETACH is in the flags and 0 otherwise.
InMain == pc \notin {"req", "ret"}

C17_UmountFlags ==
    \A i \in DOMAIN calls : calls[i].op = "umount" =>
        /\ calls[i].os_flags \subseteq {1}
        /\ calls[i].os_flags = {1} <=> (calls[i].flags # NoFlags /\ 1 \in calls[i].flags)
        /\ InMain =>
             /\ calls[i].target \in {OldRoot, ScratchInOld(scratch)}
             /\ calls[i].target = OldRoot =>
                  calls[i].flags = DETACH /\ calls[i].os_flags = MNT_DETACH
             /\ calls[i].target = ScratchInOld(scratch) =>
                  calls[i].flags = NoFlags /\ calls[i].os_flags = {}

\* main() has issued both of its umount calls
C17_Witness ==
    /\ InMain
    /\ CountOp("umount") = 2
    /\ calls[Len(calls)].op = "umount" /\ calls[Len(calls)].target = OldRoot

\* C18: every mount request of main() carries either no flags at all (the
\* tmpfs mount) or exactly one of BIND, SLAVE, SHARED, PRIVATE, UNBINDABLE,
\* with or without REC, and nothing else; a SLAVE request has the source
\* "none" and an empty filesystem type.
ModeTags == {BIND, SLAVE, SHARED, PRIVATE, UNBINDABLE}

C18_OneModePerRequest ==
    \A i \in DOMAIN calls : calls[i].op = "mount" =>
        /\ calls[i].flags = NoFlags <=> calls[i].fstype = "tmpfs"
        /\ calls[i].flags # NoFlags =>
             /\ calls[i].flags \subseteq MountFlagsAll
             /\ Cardinality({ t \in ModeTags : Contains(calls[i].flags, t) }) = 1
             /\ Contains(calls[i].flags, SLAVE) =>
                  calls[i].src = NonePath /\ calls[i].fstype = ""

\* all twelve mount requests of main() have been issued
C18_Witness ==
    /\ CountOp("mount") = 12
    /\ \E i \in DOMAIN calls : calls[i].op = "mount" /\ calls[i].flags = NoFlags
    /\ \E i \in DOMAIN calls : calls[i].op = "mount" /\ calls[i].flags = BitOr(REC, SLAVE)
    /\ \E i \in DOMAIN calls : calls[i].op = "mount" /\ calls[i].flags = BIND

\* C19: a run of main() in which every call returns ends after a bounded
\* number of steps, either aborted at its first failed step with the launcher
\* not invoked, or with the launcher invoked after every step succeeded;
\* each step moves main() strictly forward, so none is taken twice.
StepsBeforeLoop ==
    << "start", "canonicalize", "cmd", "tempdir", "unshare", "slave_root", "bind_scratch",
       "bind_rootfs", "slave_scratch" >>

StepsAfterLoop ==
    << "tmpfs", "create_put_old", "pivot", "umount_scratch", "remove_scratch",
       "slave_old_root", "umount_old_root", "remove_old_root", "chdir", "launch" >>

IndexIn(seq, x) == CHOOSE k \in DOMAIN seq : seq[k] = x

LastStepNo == Len(StepsBeforeLoop) + 2 * Len(FromHost) + Len(StepsAfterLoop) + 1

StepNo(p, i) ==
    IF p \in {"done", "aborted"} THEN LastStepNo
    ELSE IF p = "bind_host" THEN Len(StepsBeforeLoop) + 2 * i - 1
    ELSE IF p = "slave_host" THEN Len(StepsBeforeLoop) + 2 * i
    ELSE IF \E k \in DOMAIN StepsBeforeLoop : StepsBeforeLoop[k] = p
         THEN IndexIn(StepsBeforeLoop, p)
    ELSE Len(StepsBeforeLoop) + 2 * Len(FromHost) + IndexIn(StepsAfterLoop, p)

Ended == pc \in {"done", "aborted"}

FailedCalls == { i \in DOMAIN calls : ~calls[i].ok }

AbortedAtFirstFailure ==
    /\ pc = "aborted"
    /\ launches = <<>>
    /\ err # NoErr
    /\ Cardinality(FailedCalls) <= 1
    /\ \A i \in FailedCalls : \A j \in (i + 1)..Len(calls) : calls[j].op = "remove_dir_all"

LauncherInvoked ==
    /\ Len(launches) = 1
    /\ \A i \in DOMAIN calls : calls[i].op \in StepOps => calls[i].ok
    /\ { calls[i].op : i \in DOMAIN calls } \cap StepOps = StepOps

C19_State ==
    /\ Ended => (AbortedAtFirstFailure /\ ~LauncherInvoked) \/ (LauncherInvoked /\ ~AbortedAtFirstFailure)
    /\ ~Ended => FailedCalls = {} /\ launches = <<>>
    /\ Len(calls) <= LastStepNo
    /\ \A i, j \in DOMAIN calls :
         (i < j /\ calls[i].op \in StepOps /\ calls[j].op \in StepOps) =>
            [calls[i] EXCEPT !.ok = TRUE] # [calls[j] EXCEPT !.ok = TRUE]

C19_Forward == StepNo(pc', loop_i') > StepNo(pc, loop_i)

C19_LinearTermination ==
    /\ <>Ended
    /\ [](C19_State)
    /\ [][C19_Forward]_vars

\* a run has gone through every step and ended with the launcher invoked
C19_Witness ==
    /\ pc = "done"
    /\ LauncherInvoked
    /\ FailedCalls = {}
    /\ StepNo(pc, loop_i) = LastStepNo

====
